---- MODULE Spec2Model ----
(***************************************************************************)
(* Model of the two GPU usage reports of slurm-helper-scripts:             *)
(*   variant "cost" : slurm_quota_and_usage.py     (per-user cost report)  *)
(*   variant "msc"  : slurm_quota_and_usage_msc.py (per-account GPU hours) *)
(*                                                                         *)
(* Python values are modelled as follows.  A str is a TLA+ string; None is *)
(* the string NONE.  A line of tool output is the sequence of its          *)
(* '|'-separated fields, i.e. the value of line.split('|'); the empty line *)
(* is <<"">>.  The ','- and '='-splits of a field are looked up in the     *)
(* tables SplitComma and SplitEq, int() in the table IntLiteral.  A float  *)
(* is the string of its repr(), and the float operations of the aggregator *)
(* are the tables parse_time, TimesGpus, TimesRate and FloatAdd, which     *)
(* hold the IEEE-754 double results for the values of the modelled rows.   *)
(***************************************************************************)
EXTENDS Integers, Sequences, FiniteSets, TLC

VARIABLES
    variant,        \* which script runs: "cost" or "msc"
    current_user,   \* os.getenv('USER')
    args,           \* argparse namespace: username, account, start, end
    username,       \* args.username after main's resolution
    pc,             \* position of the run
    exit_code,      \* NONE while running; "0", "1", or the uncaught exception
    cmd,            \* get_usage: the sacct command being built
    coord_out,      \* what the sacctmgr coordinator query returned
    queries,        \* every external command issued so far, in order
    usage_data,     \* get_usage's return value
    job_i,          \* calculate_*: number of rows consumed by the loop
    usage_by,       \* usage_by_user / usage_by_account
    all_accounts,   \* calculate_*: all_accounts
    sshare_out,     \* what sshare returns for each account (the environment)
    todo,           \* get_gpu_limits: accounts the loop has not reached yet
    gpu_limits,     \* get_gpu_limits: gpu_limits
    report          \* the limit cells of the printed report

vars == <<variant, current_user, args, username, pc, exit_code, cmd, coord_out,
          queries, usage_data, job_i, usage_by, all_accounts, sshare_out, todo,
          gpu_limits, report>>

----------------------------------------------------------------------------
(* Bounds of the model *)

MaxCoordRows == 2
MaxJobs == 3
MaxLimitRows == 2

----------------------------------------------------------------------------
(* Python values *)

NONE == "<None>"
\* the outcome of subprocess.run(..., check=True): CalledProcessError, or stdout
\* as its lines (before strip().split('\n'), see Lines)
Failed == [failed |-> TRUE, out |-> <<>>]
Ok(out) == [failed |-> FALSE, out |-> out]

\* no coordinator query has run
NotRun == [failed |-> FALSE, out |-> <<>>, notrun |-> TRUE]

\* Python truthiness of an optional str
Truthy(s) == s # NONE /\ s # ""

\* x in list
In(x, list) == \E i \in DOMAIN list : list[i] = x

\* result.stdout.strip().split('\n'): an empty output is the one empty line
Lines(out) == IF out = <<>> THEN << <<"">> >> ELSE out

\* s.split(',') for the fields the model uses
SplitComma ==
    [s \in {"", "alice", "bob", "alice,bob", "cpu=4", "gres/gpu=1", "gres/gpu=2",
            "cpu=4,gres/gpu=1", "gres/gpu=x", "gres/gpu=", "gres/gpu=0",
            "gres/gpu=5", "gres/gpu=500", "gres/gpu=3000", "gres/gpu=abc",
            "cpu=9,gres/gpu=60"} |->
        CASE s = "alice,bob" -> <<"alice", "bob">>
          [] s = "cpu=4,gres/gpu=1" -> <<"cpu=4", "gres/gpu=1">>
          [] s = "cpu=9,gres/gpu=60" -> <<"cpu=9", "gres/gpu=60">>
          [] OTHER -> <<s>>]

\* item.split('=') for the items the model uses
SplitEq ==
    [s \in {"", "alice", "bob", "cpu=4", "cpu=9", "gres/gpu=1", "gres/gpu=2",
            "gres/gpu=x", "gres/gpu=", "gres/gpu=0", "gres/gpu=5", "gres/gpu=60",
            "gres/gpu=500", "gres/gpu=3000", "gres/gpu=abc"} |->
        CASE s = "cpu=4" -> <<"cpu", "4">>
          [] s = "cpu=9" -> <<"cpu", "9">>
          [] s = "gres/gpu=1" -> <<"gres/gpu", "1">>
          [] s = "gres/gpu=2" -> <<"gres/gpu", "2">>
          [] s = "gres/gpu=x" -> <<"gres/gpu", "x">>
          [] s = "gres/gpu=" -> <<"gres/gpu", "">>
          [] s = "gres/gpu=0" -> <<"gres/gpu", "0">>
          [] s = "gres/gpu=5" -> <<"gres/gpu", "5">>
          [] s = "gres/gpu=60" -> <<"gres/gpu", "60">>
          [] s = "gres/gpu=500" -> <<"gres/gpu", "500">>
          [] s = "gres/gpu=3000" -> <<"gres/gpu", "3000">>
          [] s = "gres/gpu=abc" -> <<"gres/gpu", "abc">>
          [] OTHER -> <<s>>]

\* item.startswith('gres/gpu=')
StartsWithGpu(item) == Len(SplitEq[item]) >= 2 /\ SplitEq[item][1] = "gres/gpu"

\* next((item.split('=')[1] for item in field.split(',')
\*       if item.startswith('gres/gpu=')), None), as a string
GpuValue(field) ==
    LET items == SplitComma[field]
        hits == {i \in DOMAIN items : StartsWithGpu(items[i])}
    IN  IF hits = {} THEN NONE
        ELSE SplitEq[items[CHOOSE i \in hits : \A j \in hits : i <= j]][2]

\* int(s): the literals int() accepts; any other string raises ValueError
IntLiteral ==
    [s \in {"0", "1", "2", "5", "36", "60", "500", "3000", "3600"} |->
        CASE s = "0" -> 0 [] s = "1" -> 1 [] s = "2" -> 2 [] s = "5" -> 5
          [] s = "36" -> 36 [] s = "60" -> 60 [] s = "500" -> 500
          [] s = "3000" -> 3000 [] s = "3600" -> 3600]

IsIntLiteral(s) == s \in DOMAIN IntLiteral

\* float(s): the model has no numeric literal that int() rejects and float()
\* accepts, so float() is defined on the same literals
IsFloatLiteral(s) == s \in DOMAIN IntLiteral

----------------------------------------------------------------------------
(* main: argument resolution *)

Variants == {"cost", "msc"}
CallerIds == {"root", "alice", "bob"}
RequestedUsers == {NONE, "alice", "bob"}
RequestedAccounts == {NONE, "acctA", "-a"}
StartDates == {"2024-01-01", "-a"}
EndDates == {"2024-01-31", "January"}

\* datetime.date.fromisoformat(args.end) succeeds
IsIsoDate(s) == s = "2024-01-31"

\* (combine(end_date, time.max) + timedelta(minutes=15)).date().isoformat()
EndWithBuffer(s) == IF s = "2024-01-31" THEN "2024-02-01" ELSE s

\* PermissionDenied with the comparison of the two names inverted
PermissionDenied_Inverted(cu, un) == cu # "root" /\ Truthy(un) /\ un = cu

\* the non-root branch prints the permission error and exits 1
PermissionDenied(cu, un) == cu # "root" /\ Truthy(un) /\ un # cu

\* InvalidArguments without the test of args.account
InvalidArguments_UsernameOnly(cu, un, ac) == cu = "root" /\ ~Truthy(un)

\* the root branch prints the argument error and exits 1
InvalidArguments(cu, un, ac) == cu = "root" /\ ~Truthy(un) /\ ~Truthy(ac)

\* args.username as main leaves it when it does not exit
ResolvedUsername(v, cu, un, ac) ==
    IF cu # "root" THEN cu
    ELSE IF v = "cost" /\ ~Truthy(un) /\ Truthy(ac) THEN NONE
    ELSE un

Exit(code) ==
    /\ pc' = "exit"
    /\ exit_code' = code

main ==
    /\ pc = "main"
    /\ IF PermissionDenied(current_user, args.username)
          \/ InvalidArguments(current_user, args.username, args.account)
       THEN /\ Exit("1")
            /\ UNCHANGED username
       ELSE /\ username' = ResolvedUsername(variant, current_user,
                                            args.username, args.account)
            /\ pc' = "end_date"
            /\ UNCHANGED exit_code
    /\ UNCHANGED <<report, variant, current_user, args, cmd, coord_out, queries,
                   usage_data, job_i, usage_by, all_accounts, sshare_out, todo,
                   gpu_limits>>

\* main, from the parse of args.end to the call of get_usage
main_end_date ==
    /\ pc = "end_date"
    /\ IF IsIsoDate(args.end)
       THEN pc' = "get_usage" /\ UNCHANGED exit_code
       ELSE Exit("ValueError")
    /\ UNCHANGED <<report, variant, current_user, args, username, cmd, coord_out,
                   queries, usage_data, job_i, usage_by, all_accounts,
                   sshare_out, todo, gpu_limits>>

----------------------------------------------------------------------------
(* get_usage *)

\* the sacct command before any optional filter
BaseCmd(start_date, end_date) ==
    <<"sacct", "-n", "-P", "-X", "-S", start_date, "-E", end_date,
      "--format=JobID,User,ElapsedRaw,AllocTRES,Partition,Account",
      "--qos=normal_qos,large_qos", "--truncate">>

coord_check_cmd(account) ==
    <<"sacctmgr", "show", "account", account, "withcoord", "-n", "-P">>

\* rows the coordinator query can return: Account|Descr|Org|Coordinators
CoordLines ==
    { <<"acctA", "physics", "hkust", "alice,bob">>,
      <<"acctA", "physics", "hkust", "">>,
      <<"acctB", "chem", "hkust", "alice">>,
      <<"acctA", "physics", "hkust">> }

RECURSIVE SeqsUpTo(_, _)
SeqsUpTo(S, n) ==
    IF n = 0 THEN {<<>>}
    ELSE LET shorter == SeqsUpTo(S, n - 1)
         IN  shorter \cup {Append(s, x) : s \in {t \in shorter : Len(t) = n - 1}, x \in S}

CoordResponses == {Failed} \cup {Ok(o) : o \in SeqsUpTo(CoordLines, MaxCoordRows)}

\* the loop over the coordinator rows reaches cmd.extend(["-a"])
IsCoordinator(out, account, user) ==
    \E i \in DOMAIN Lines(out) :
        LET acc_parts == Lines(out)[i]
        IN  /\ Len(acc_parts) >= 4
            /\ acc_parts[1] = account
            /\ In(user, SplitComma[acc_parts[4]])

\* cmd after the "if account:" block, given what the coordinator query returned
\* (a CalledProcessError is caught and printed); the msc variant has no such query
WithAccount(v, c, account, user, res) ==
    IF ~Truthy(account) THEN c
    ELSE IF v = "cost" /\ ~res.failed /\ IsCoordinator(res.out, account, user)
         THEN c \o <<"-A", account>> \o <<"-a">>
         ELSE c \o <<"-A", account>>

\* WithUsername without the test "-a" not in cmd
WithUsername_Always(v, c, user) == IF Truthy(user) THEN c \o <<"-u", user>> ELSE c

\* cmd after the "if username ..." block
WithUsername(v, c, user) ==
    IF v = "cost"
    THEN IF Truthy(user) /\ ~In("-a", c) THEN c \o <<"-u", user>> ELSE c
    ELSE IF Truthy(user) THEN c \o <<"-u", user>> ELSE c

\* get_usage up to the point where the sacct command is complete; in the cost
\* variant with an account this runs the coordinator query
get_usage_build ==
    /\ pc = "get_usage"
    /\ LET base == BaseCmd(args.start, EndWithBuffer(args.end))
       IN  IF variant = "cost" /\ Truthy(args.account)
           THEN \E res \in CoordResponses :
                   /\ coord_out' = res
                   /\ queries' = Append(queries,
                          [tool |-> "sacctmgr", cmd |-> coord_check_cmd(args.account)])
                   /\ cmd' = WithUsername(variant,
                          WithAccount(variant, base, args.account, username, res),
                          username)
           ELSE /\ cmd' = WithUsername(variant,
                          WithAccount(variant, base, args.account, username, Failed),
                          username)
                /\ UNCHANGED <<coord_out, queries>>
    /\ pc' = "sacct"
    /\ UNCHANGED <<report, variant, current_user, args, username, exit_code, usage_data,
                   job_i, usage_by, all_accounts, sshare_out, todo, gpu_limits>>

\* job rows: JobID|User|ElapsedRaw|AllocTRES|Partition|Account
Job1 == <<"J1", "alice", "3600", "gres/gpu=2", "normal", "acctA">>
Job2 == <<"J2", "alice", "36", "cpu=4,gres/gpu=1", "large", "acctA">>
Job3 == <<"J3", "bob", "36", "gres/gpu=1", "normal", "acctB">>
Job4 == <<"J4", "alice", "36", "gres/gpu=1", "normal", "acctB">>
JobNoGpu == <<"J5", "alice", "36", "cpu=4", "normal", "acctA">>
JobOtherPartition == <<"J6", "alice", "36", "gres/gpu=1", "debug", "acctA">>
JobNoUser == <<"J7", "", "36", "gres/gpu=1", "normal", "acctA">>
JobNoAccount == <<"J8", "bob", "36", "gres/gpu=1", "normal", "">>
JobShort == <<"J9", "alice", "36", "gres/gpu=1">>
JobLong == <<"J10", "alice", "36", "gres/gpu=1", "normal", "acctA", "">>
JobBadElapsed == <<"J11", "bob", "", "gres/gpu=1", "normal", "acctB">>
JobBadGpu == <<"J12", "bob", "36", "gres/gpu=x", "normal", "acctB">>
JobEmpty == <<"">>

\* outputs of the sacct query the whole run is explored with
SacctSamples ==
    { <<>>, <<Job1>>, <<Job1, Job3>>, <<Job2, JobShort>>, <<JobBadGpu>> }

\* get_usage: run the sacct command; a failure is printed and [] returned
get_usage_run ==
    /\ pc = "sacct"
    /\ queries' = Append(queries, [tool |-> "sacct", cmd |-> cmd])
    /\ \E res \in {Failed} \cup {Ok(o) : o \in SacctSamples} :
          usage_data' = IF res.failed THEN <<>> ELSE Lines(res.out)
    /\ pc' = "calculate"
    /\ job_i' = 0
    /\ UNCHANGED <<report, variant, current_user, args, username, exit_code, cmd,
                   coord_out, usage_by, all_accounts, sshare_out, todo, gpu_limits>>

----------------------------------------------------------------------------
(* calculate_cost / calculate_gpu_hours *)

\* dollars per GPU-minute
COST_PER_GPU_MINUTE == [normal |-> "0.2", large |-> "0.2", buildlam |-> "0.2"]

EmptyDict == [k \in {} |-> NONE]

\* d[k] = v on a dict
Put(d, k, v) == [x \in DOMAIN d \cup {k} |-> IF x = k THEN v ELSE d[x]]

\* parse_time(elapsed): int(elapsed) / 60 (cost) or int(elapsed) / 3600 (msc)
parse_time(v, elapsed) ==
    IF v = "cost" THEN ("3600" :> "60.0" @@ "36" :> "0.6")[elapsed]
    ELSE ("3600" :> "1.0" @@ "36" :> "0.01")[elapsed]

\* minutes * gpus, hours * gpus
TimesGpus(x, gpus) ==
    ("60.0" :> (2 :> "120.0") @@ "1.0" :> (2 :> "2.0")
     @@ "0.6" :> (1 :> "0.6") @@ "0.01" :> (1 :> "0.01"))[x][gpus]

\* minutes * gpus * gpu_cost_per_minute
TimesRate(x, rate) ==
    ("120.0" :> ("0.2" :> "24.0") @@ "0.6" :> ("0.2" :> "0.12"))[x][rate]

\* x + y in IEEE-754 double arithmetic ("0" is the int 0 an accumulator starts
\* from), for the sums of up to four of the modelled jobs
FloatAdd ==
    "0" :> ("0.01" :> "0.01" @@ "0.02" :> "0.02" @@ "0.03" :> "0.03" @@ "0.04"
         :> "0.04" @@ "0.12" :> "0.12" @@ "0.24" :> "0.24" @@ "0.36" :> "0.36" @@
         "0.48" :> "0.48" @@ "0.6" :> "0.6" @@ "1.2" :> "1.2" @@
         "1.7999999999999998" :> "1.7999999999999998" @@ "2.0" :> "2.0" @@ "2.01"
         :> "2.01" @@ "2.0199999999999996" :> "2.0199999999999996" @@ "2.02" :>
         "2.02" @@ "2.0299999999999994" :> "2.0299999999999994" @@ "2.03" :> "2.03"
         @@ "2.4" :> "2.4" @@ "4.0" :> "4.0" @@ "4.01" :> "4.01" @@ "4.02" :>
         "4.02" @@ "6.0" :> "6.0" @@ "6.01" :> "6.01" @@ "8.0" :> "8.0" @@ "24.0"
         :> "24.0" @@ "24.12" :> "24.12" @@ "24.24" :> "24.24" @@
         "24.240000000000002" :> "24.240000000000002" @@ "24.36" :> "24.36" @@
         "24.360000000000003" :> "24.360000000000003" @@ "48.0" :> "48.0" @@
         "48.12" :> "48.12" @@ "48.120000000000005" :> "48.120000000000005" @@
         "48.239999999999995" :> "48.239999999999995" @@ "48.24" :> "48.24" @@
         "72.0" :> "72.0" @@ "72.12" :> "72.12" @@ "96.0" :> "96.0" @@ "120.0" :>
         "120.0" @@ "120.6" :> "120.6" @@ "121.19999999999999" :>
         "121.19999999999999" @@ "121.2" :> "121.2" @@ "121.79999999999998" :>
         "121.79999999999998" @@ "121.8" :> "121.8" @@ "240.0" :> "240.0" @@
         "240.6" :> "240.6" @@ "241.2" :> "241.2" @@ "360.0" :> "360.0" @@ "360.6"
         :> "360.6" @@ "480.0" :> "480.0")
    @@ "0.01" :> ("0.01" :> "0.02" @@ "0.02" :> "0.03" @@ "0.03" :> "0.04" @@
         "2.0" :> "2.01" @@ "2.01" :> "2.0199999999999996" @@ "2.0199999999999996"
         :> "2.0299999999999994" @@ "2.02" :> "2.03" @@ "4.0" :> "4.01" @@ "4.01"
         :> "4.02" @@ "6.0" :> "6.01")
    @@ "0.02" :> ("0.01" :> "0.03" @@ "0.02" :> "0.04" @@ "2.0" :> "2.02" @@
         "2.01" :> "2.03" @@ "4.0" :> "4.02")
    @@ "0.03" :> ("0.01" :> "0.04" @@ "2.0" :> "2.03")
    @@ "0.12" :> ("0.12" :> "0.24" @@ "0.24" :> "0.36" @@ "0.36" :> "0.48" @@
         "24.0" :> "24.12" @@ "24.12" :> "24.240000000000002" @@ "24.24" :> "24.36"
         @@ "24.240000000000002" :> "24.360000000000003" @@ "48.0" :> "48.12" @@
         "48.12" :> "48.239999999999995" @@ "48.120000000000005" :> "48.24" @@
         "72.0" :> "72.12")
    @@ "0.24" :> ("0.12" :> "0.36" @@ "0.24" :> "0.48" @@ "24.0" :> "24.24" @@
         "24.12" :> "24.36" @@ "48.0" :> "48.24")
    @@ "0.36" :> ("0.12" :> "0.48" @@ "24.0" :> "24.36")
    @@ "0.6" :> ("0.6" :> "1.2" @@ "1.2" :> "1.7999999999999998" @@
         "1.7999999999999998" :> "2.4" @@ "120.0" :> "120.6" @@ "120.6" :>
         "121.19999999999999" @@ "121.19999999999999" :> "121.79999999999998" @@
         "121.2" :> "121.8" @@ "240.0" :> "240.6" @@ "240.6" :> "241.2" @@ "360.0"
         :> "360.6")
    @@ "1.2" :> ("0.6" :> "1.7999999999999998" @@ "1.2" :> "2.4" @@ "120.0" :>
         "121.2" @@ "120.6" :> "121.8" @@ "240.0" :> "241.2")
    @@ "1.7999999999999998" :> ("0.6" :> "2.4" @@ "120.0" :> "121.8")
    @@ "2.0" :> ("0.01" :> "2.01" @@ "0.02" :> "2.02" @@ "0.03" :> "2.03" @@
         "2.0" :> "4.0" @@ "2.01" :> "4.01" @@ "2.0199999999999996" :> "4.02" @@
         "2.02" :> "4.02" @@ "4.0" :> "6.0" @@ "4.01" :> "6.01" @@ "6.0" :> "8.0")
    @@ "2.01" :> ("0.01" :> "2.0199999999999996" @@ "0.02" :> "2.03" @@ "2.0" :>
         "4.01" @@ "2.01" :> "4.02" @@ "4.0" :> "6.01")
    @@ "2.0199999999999996" :> ("0.01" :> "2.0299999999999994" @@ "2.0" :>
         "4.02")
    @@ "2.02" :> ("0.01" :> "2.03" @@ "2.0" :> "4.02")
    @@ "4.0" :> ("0.01" :> "4.01" @@ "0.02" :> "4.02" @@ "2.0" :> "6.0" @@ "2.01"
         :> "6.01" @@ "4.0" :> "8.0")
    @@ "4.01" :> ("0.01" :> "4.02" @@ "2.0" :> "6.01")
    @@ "6.0" :> ("0.01" :> "6.01" @@ "2.0" :> "8.0")
    @@ "24.0" :> ("0.12" :> "24.12" @@ "0.24" :> "24.24" @@ "0.36" :> "24.36" @@
         "24.0" :> "48.0" @@ "24.12" :> "48.120000000000005" @@ "24.24" :>
         "48.239999999999995" @@ "24.240000000000002" :> "48.24" @@ "48.0" :>
         "72.0" @@ "48.12" :> "72.12" @@ "48.120000000000005" :> "72.12" @@ "72.0"
         :> "96.0")
    @@ "24.12" :> ("0.12" :> "24.240000000000002" @@ "0.24" :> "24.36" @@ "24.0"
         :> "48.120000000000005" @@ "24.12" :> "48.24" @@ "48.0" :> "72.12")
    @@ "24.24" :> ("0.12" :> "24.36" @@ "24.0" :> "48.239999999999995")
    @@ "24.240000000000002" :> ("0.12" :> "24.360000000000003" @@ "24.0" :>
         "48.24")
    @@ "48.0" :> ("0.12" :> "48.12" @@ "0.24" :> "48.24" @@ "24.0" :> "72.0" @@
         "24.12" :> "72.12" @@ "48.0" :> "96.0")
    @@ "48.12" :> ("0.12" :> "48.239999999999995" @@ "24.0" :> "72.12")
    @@ "48.120000000000005" :> ("0.12" :> "48.24" @@ "24.0" :> "72.12")
    @@ "72.0" :> ("0.12" :> "72.12" @@ "24.0" :> "96.0")
    @@ "120.0" :> ("0.6" :> "120.6" @@ "1.2" :> "121.2" @@ "1.7999999999999998"
         :> "121.8" @@ "120.0" :> "240.0" @@ "120.6" :> "240.6" @@
         "121.19999999999999" :> "241.2" @@ "121.2" :> "241.2" @@ "240.0" :>
         "360.0" @@ "240.6" :> "360.6" @@ "360.0" :> "480.0")
    @@ "120.6" :> ("0.6" :> "121.19999999999999" @@ "1.2" :> "121.8" @@ "120.0"
         :> "240.6" @@ "120.6" :> "241.2" @@ "240.0" :> "360.6")
    @@ "121.19999999999999" :> ("0.6" :> "121.79999999999998" @@ "120.0" :>
         "241.2")
    @@ "121.2" :> ("0.6" :> "121.8" @@ "120.0" :> "241.2")
    @@ "240.0" :> ("0.6" :> "240.6" @@ "1.2" :> "241.2" @@ "120.0" :> "360.0" @@
         "120.6" :> "360.6" @@ "240.0" :> "480.0")
    @@ "240.6" :> ("0.6" :> "241.2" @@ "120.0" :> "360.6")
    @@ "360.0" :> ("0.6" :> "360.6" @@ "120.0" :> "480.0")

\* the row raises ValueError: the 6-name unpacking of a longer row, int() of the
\* elapsed field, or int() of the first gres/gpu= value
RowRaises(v, job) ==
    /\ job # <<"">>
    /\ Len(job) >= 6
    /\ \/ Len(job) > 6
       \/ /\ IF v = "cost"
             THEN job[2] # "" /\ job[5] # "" /\ job[5] \in DOMAIN COST_PER_GPU_MINUTE
             ELSE job[5] # "" /\ job[6] # ""
          /\ \/ ~IsIntLiteral(job[3])
             \/ GpuValue(job[4]) # NONE /\ ~IsIntLiteral(GpuValue(job[4]))

\* the number of GPUs of a row that does not raise
Gpus(job) == IF GpuValue(job[4]) = NONE THEN 0 ELSE IntLiteral[GpuValue(job[4])]

\* the row reaches the accumulation (it is not skipped by a "continue")
RowCounts(v, job) ==
    /\ job # <<"">>
    /\ Len(job) = 6
    /\ IF v = "cost"
       THEN job[2] # "" /\ job[5] # "" /\ job[5] \in DOMAIN COST_PER_GPU_MINUTE
       ELSE job[5] # "" /\ job[6] # ""
    /\ IsIntLiteral(job[3])
    /\ GpuValue(job[4]) # NONE => IsIntLiteral(GpuValue(job[4]))
    /\ Gpus(job) # 0

\* PlusEq as a plain assignment
PlusEq_Assigned(x, y) == y

\* x += y on an accumulator
PlusEq(x, y) == FloatAdd[x][y]

\* AddToTotal as a plain assignment
AddToTotal_Assigned(total, x) == x

\* usage_by_...[...]["total"] += job_cost (cost), += gpu_hours (msc)
AddToTotal(total, x) == PlusEq(total, x)

\* the accumulation of one job of the cost variant
AccumulateCost(by, job) ==
    LET user == job[2]
        partition == job[5]
        account == job[6]
        gpu_minutes == TimesGpus(parse_time("cost", job[3]), Gpus(job))
        job_cost == TimesRate(gpu_minutes, COST_PER_GPU_MINUTE[partition])
        u0 == IF user \in DOMAIN by THEN by[user]
              ELSE [total |-> "0", partitions |-> EmptyDict, accounts |-> {}]
        p0 == IF partition \in DOMAIN u0.partitions THEN u0.partitions[partition]
              ELSE [gpu_minutes |-> "0", cost |-> "0"]
        p1 == [gpu_minutes |-> PlusEq(p0.gpu_minutes, gpu_minutes),
               cost |-> PlusEq(p0.cost, job_cost)]
    IN  Put(by, user, [total |-> AddToTotal(u0.total, job_cost),
                       partitions |-> Put(u0.partitions, partition, p1),
                       accounts |-> u0.accounts \cup {account}])

\* the accumulation of one job of the msc variant
AccumulateHours(by, job) ==
    LET partition == job[5]
        account == job[6]
        gpu_hours == TimesGpus(parse_time("msc", job[3]), Gpus(job))
        a0 == IF account \in DOMAIN by THEN by[account]
              ELSE [total |-> "0", partitions |-> EmptyDict]
        p0 == IF partition \in DOMAIN a0.partitions THEN a0.partitions[partition]
              ELSE [gpu_hours |-> "0"]
    IN  Put(by, account, [total |-> AddToTotal(a0.total, gpu_hours),
                          partitions |-> Put(a0.partitions, partition,
                              [gpu_hours |-> PlusEq(p0.gpu_hours, gpu_hours)])])

\* one iteration of the loop on a state [by, accounts, raised]
JobStep(v, st, job) ==
    IF st.raised THEN st
    ELSE IF RowRaises(v, job) THEN [st EXCEPT !.raised = TRUE]
    ELSE IF ~RowCounts(v, job) THEN st
    ELSE [by |-> IF v = "cost" THEN AccumulateCost(st.by, job)
                 ELSE AccumulateHours(st.by, job),
          accounts |-> st.accounts \cup {job[6]},
          raised |-> FALSE]

\* the whole loop "for job in usage_data" on a list of rows
RECURSIVE Aggregate(_, _, _)
Aggregate(v, st, jobs) ==
    IF jobs = <<>> THEN st
    ELSE Aggregate(v, JobStep(v, st, Head(jobs)), Tail(jobs))

\* usage_by_... = {}, all_accounts = set()
AggregateStart == [by |-> EmptyDict, accounts |-> {}, raised |-> FALSE]

\* one iteration of "for job in usage_data"
calculate_step ==
    /\ pc = "calculate"
    /\ job_i < Len(usage_data)
    /\ LET st == JobStep(variant,
                         [by |-> usage_by, accounts |-> all_accounts, raised |-> FALSE],
                         usage_data[job_i + 1])
       IN  IF st.raised
           THEN /\ Exit("ValueError")
                /\ UNCHANGED <<job_i, usage_by, all_accounts>>
           ELSE /\ job_i' = job_i + 1
                /\ usage_by' = st.by
                /\ all_accounts' = st.accounts
                /\ UNCHANGED <<pc, exit_code>>
    /\ UNCHANGED <<report, variant, current_user, args, username, cmd, coord_out,
                   queries, usage_data, sshare_out, todo, gpu_limits>>

\* return usage_by_user, all_accounts
calculate_return ==
    /\ pc = "calculate"
    /\ job_i = Len(usage_data)
    /\ pc' = "calculated"
    /\ UNCHANGED <<report, variant, current_user, args, username, exit_code, cmd,
                   coord_out, queries, usage_data, job_i, usage_by, all_accounts,
                   sshare_out, todo, gpu_limits>>

\* main after the aggregation: "No GPU usage data found" exits 0
main_no_data ==
    /\ pc = "calculated"
    /\ IF usage_by = EmptyDict
       THEN Exit("0") /\ UNCHANGED todo
       ELSE pc' = "get_gpu_limits" /\ todo' = all_accounts /\ UNCHANGED exit_code
    /\ UNCHANGED <<report, variant, current_user, args, username, cmd, coord_out,
                   queries, usage_data, job_i, usage_by, all_accounts, sshare_out,
                   gpu_limits>>

----------------------------------------------------------------------------
(* get_gpu_limits *)

\* the value None stored in gpu_limits
NoneLimit == [none |-> TRUE]

sshare_cmd(v, account, user) ==
    IF v = "cost"
    THEN <<"sshare", "-A", account, "-n", "-P", "-o",
           "Account,User,GrpTRESRaw,GrpTRESMins">>
         \o (IF Truthy(user) THEN <<"-u", user>> ELSE <<>>)
    ELSE <<"sshare", "-A", account, "-n", "-P", "-o", "Account,GrpTRESMins">>

\* limit rows of the cost variant: Account|User|GrpTRESRaw|GrpTRESMins
LimAccount == <<"acct", "", "gres/gpu=500", "gres/gpu=3000">>
LimAlice == <<"acct", "alice", "gres/gpu=5", "">>
LimBob == <<"acct", "bob", "cpu=4", "gres/gpu=">>
LimBad == <<"acct", "alice", "gres/gpu=abc", "cpu=9,gres/gpu=60">>
LimShort == <<"acct", "alice">>

\* limit rows of the msc variant: Account|GrpTRESMins
MscLimit == <<"acct", "gres/gpu=3000">>
MscNoLimit == <<"acct", "">>
MscEmptyValue == <<"acct", "gres/gpu=">>
MscBad == <<"acct", "gres/gpu=abc">>
MscShort == <<"acct">>

LimitLines(v) ==
    IF v = "cost" THEN {LimAccount, LimAlice, LimBob, LimBad, LimShort}
    ELSE {MscLimit, MscNoLimit, MscEmptyValue, MscBad, MscShort}

SshareResponses(v) ==
    {Failed} \cup {Ok(o) : o \in SeqsUpTo(LimitLines(v), MaxLimitRows)}

\* one iteration of "for line in lines" of the cost variant
LimitRowCost(gl, account, parts) ==
    IF Len(parts) >= 4
    THEN LET gpu_limit == [used |-> GpuValue(parts[3]), total |-> GpuValue(parts[4])]
         IN  IF parts[2] = ""
             THEN Put(gl, account, Put(EmptyDict, "account", gpu_limit))
             ELSE Put(gl, account,
                      Put(IF account \in DOMAIN gl THEN gl[account] ELSE EmptyDict,
                          parts[2], gpu_limit))
    ELSE Put(gl, account, Put(EmptyDict, "account", NoneLimit))

\* float(gpu_mins) raises ValueError in the msc variant
LimitRowRaises(v, parts) ==
    /\ v = "msc"
    /\ Len(parts) >= 2
    /\ Truthy(GpuValue(parts[2]))
    /\ ~IsFloatLiteral(GpuValue(parts[2]))

\* one iteration of "for line in lines" of the msc variant, on a row that does
\* not raise.  The limit float(gpu_mins) / 60 is held in GPU-minutes (1/60 hour)
LimitRowMsc(gl, account, parts) ==
    IF Len(parts) >= 2 /\ Truthy(GpuValue(parts[2]))
    THEN Put(gl, account, [hours |-> IntLiteral[GpuValue(parts[2])]])
    ELSE Put(gl, account, NoneLimit)

\* "for line in lines" on a state [gl, raised]
RECURSIVE LimitRows(_, _, _, _)
LimitRows(v, st, account, lines) ==
    IF lines = <<>> \/ st.raised THEN st
    ELSE LET parts == Head(lines)
         IN  LimitRows(v,
                 IF LimitRowRaises(v, parts) THEN [st EXCEPT !.raised = TRUE]
                 ELSE [st EXCEPT !.gl = IF v = "cost"
                                        THEN LimitRowCost(st.gl, account, parts)
                                        ELSE LimitRowMsc(st.gl, account, parts)],
                 account, Tail(lines))

\* what the except branch stores for an account whose query failed
Unavailable(v) == IF v = "cost" THEN Put(EmptyDict, "account", NoneLimit) ELSE NoneLimit

\* the body of "for account in accounts" once the query has returned res
LimitsForAccount(v, gl, account, res) ==
    IF res.failed
    THEN [gl |-> Put(gl, account, Unavailable(v)), raised |-> FALSE]
    ELSE LimitRows(v, [gl |-> gl, raised |-> FALSE], account, Lines(res.out))

\* one iteration of "for account in accounts" (a set: any order)
get_gpu_limits_step ==
    /\ pc = "get_gpu_limits"
    /\ \E account \in todo :
          /\ queries' = Append(queries,
                 [tool |-> "sshare", cmd |-> sshare_cmd(variant, account, username)])
          /\ LET st == LimitsForAccount(variant, gpu_limits, account,
                                        sshare_out[account])
             IN  IF st.raised
                 THEN /\ Exit("ValueError")
                      /\ UNCHANGED <<todo, gpu_limits>>
                 ELSE /\ gpu_limits' = st.gl
                      /\ todo' = todo \ {account}
                      /\ UNCHANGED <<pc, exit_code>>
    /\ UNCHANGED <<report, variant, current_user, args, username, cmd, coord_out,
                   usage_data, job_i, usage_by, all_accounts, sshare_out>>

\* return gpu_limits
get_gpu_limits_return ==
    /\ pc = "get_gpu_limits"
    /\ todo = {}
    /\ pc' = "report"
    /\ UNCHANGED <<report, variant, current_user, args, username, exit_code, cmd,
                   coord_out, queries, usage_data, job_i, usage_by, all_accounts,
                   sshare_out, todo, gpu_limits>>

----------------------------------------------------------------------------
(* format_output and the account-level lines of main *)

\* the text "N/A" (cost) or "n/a" (msc)
NA == [na |-> TRUE]

\* float(x) if x else 0
FloatOrZero(x) == IF Truthy(x) THEN IntLiteral[x] ELSE 0

\* the limit of the cost variant is printed as used/total
IsPrinted(limit) == limit # NoneLimit /\ limit.total # NONE

\* float() of a printed limit raises ValueError
CellRaises(limit) ==
    /\ IsPrinted(limit)
    /\ \/ Truthy(limit.used) /\ ~IsFloatLiteral(limit.used)
       \/ Truthy(limit.total) /\ ~IsFloatLiteral(limit.total)

\* f"{used_minutes:.0f}/{total_minutes:.0f}", or N/A
Cell(limit) ==
    IF IsPrinted(limit)
    THEN [used |-> FloatOrZero(limit.used), total |-> FloatOrZero(limit.total)]
    ELSE NA

\* gpu_limits[account][user] where format_output reads it, else None
UserLimit(gl, account, user) ==
    IF account \in DOMAIN gl /\ user \in DOMAIN gl[account]
    THEN gl[account][user] ELSE NoneLimit

\* gpu_limits.get(account, {}).get("account")
AccountLimit(gl, account) ==
    IF account \in DOMAIN gl /\ "account" \in DOMAIN gl[account]
    THEN gl[account]["account"] ELSE NoneLimit

\* format_output of the msc variant: the limit after "total / "
MscCell(gl, account) == IF account \in DOMAIN gl THEN gl[account] ELSE NoneLimit

\* main from the return of get_gpu_limits to the end.  In the cost variant
\* format_output takes next(iter(data["accounts"])) as the user's account: any
\* element of the set
main_report ==
    /\ pc = "report"
    /\ IF variant = "cost"
       THEN \E pick \in [DOMAIN usage_by -> all_accounts] :
               /\ \A u \in DOMAIN usage_by : pick[u] \in usage_by[u].accounts
               /\ IF \/ \E u \in DOMAIN usage_by :
                           CellRaises(UserLimit(gpu_limits, pick[u], u))
                     \/ \E a \in all_accounts :
                           CellRaises(AccountLimit(gpu_limits, a))
                  THEN Exit("ValueError") /\ UNCHANGED report
                  ELSE /\ report' =
                            [users |-> [u \in DOMAIN usage_by |->
                                          Cell(UserLimit(gpu_limits, pick[u], u))],
                             accounts |-> [a \in all_accounts |->
                                          Cell(AccountLimit(gpu_limits, a))]]
                       /\ Exit("0")
       ELSE /\ report' = [accounts |-> [a \in DOMAIN usage_by |->
                              IF MscCell(gpu_limits, a) = NoneLimit THEN NA
                              ELSE MscCell(gpu_limits, a)]]
            /\ Exit("0")
    /\ UNCHANGED <<variant, current_user, args, username, cmd, coord_out,
                   queries, usage_data, job_i, usage_by, all_accounts, sshare_out,
                   todo, gpu_limits>>

----------------------------------------------------------------------------
(* The whole run *)

\* what sshare answers in the runs of the whole program
SshareSamples(v) ==
    IF v = "cost"
    THEN { [a \in {"acctA", "acctB"} |-> Ok(<<LimAccount, LimAlice>>)],
           [a \in {"acctA", "acctB"} |->
               IF a = "acctA" THEN Failed ELSE Ok(<<LimBob, LimAccount>>)],
           [a \in {"acctA", "acctB"} |->
               IF a = "acctA" THEN Ok(<<LimAccount, LimBad>>) ELSE Ok(<<>>)] }
    ELSE { [a \in {"acctA", "acctB"} |-> Ok(<<MscLimit>>)],
           [a \in {"acctA", "acctB"} |->
               IF a = "acctA" THEN Failed ELSE Ok(<<MscNoLimit>>)],
           [a \in {"acctA", "acctB"} |->
               IF a = "acctA" THEN Ok(<<MscBad>>) ELSE Ok(<<MscShort>>)] }

Init ==
    /\ variant \in Variants
    /\ current_user \in CallerIds
    /\ args \in [username : RequestedUsers, account : RequestedAccounts,
                 start : StartDates, end : EndDates]
    /\ username = args.username
    /\ pc = "main"
    /\ exit_code = NONE
    /\ cmd = <<>>
    /\ coord_out = NotRun
    /\ queries = <<>>
    /\ usage_data = <<>>
    /\ job_i = 0
    /\ usage_by = EmptyDict
    /\ all_accounts = {}
    /\ sshare_out \in SshareSamples(variant)
    /\ todo = {}
    /\ gpu_limits = EmptyDict
    /\ report = EmptyDict

Next ==
    \/ main
    \/ main_end_date
    \/ get_usage_build
    \/ get_usage_run
    \/ calculate_step
    \/ calculate_return
    \/ main_no_data
    \/ get_gpu_limits_step
    \/ get_gpu_limits_return
    \/ main_report

Spec == Init /\ [][Next]_vars

----------------------------------------------------------------------------
(* The aggregator on every bounded sequence of job rows *)

JobLines ==
    { Job1, Job2, Job3, Job4, JobNoGpu, JobOtherPartition, JobNoUser,
      JobNoAccount, JobShort, JobLong, JobBadElapsed, JobBadGpu, JobEmpty }

InitAgg ==
    /\ variant \in Variants
    /\ current_user = "alice"
    /\ args = [username |-> NONE, account |-> NONE,
               start |-> "2024-01-01", end |-> "2024-01-31"]
    /\ username = "alice"
    /\ pc = "calculate"
    /\ exit_code = NONE
    /\ cmd = <<>>
    /\ coord_out = NotRun
    /\ queries = <<>>
    /\ usage_data \in SeqsUpTo(JobLines, MaxJobs)
    /\ job_i = 0
    /\ usage_by = EmptyDict
    /\ all_accounts = {}
    /\ sshare_out = EmptyDict
    /\ todo = {}
    /\ gpu_limits = EmptyDict
    /\ report = EmptyDict

NextAgg == calculate_step \/ calculate_return

SpecAgg == InitAgg /\ [][NextAgg]_vars

----------------------------------------------------------------------------
(* The limit lookup on every bounded answer of sshare *)

LimitAccounts == {"acctA", "acctB"}

InitLim ==
    /\ variant \in Variants
    /\ current_user = "alice"
    /\ args = [username |-> NONE, account |-> NONE,
               start |-> "2024-01-01", end |-> "2024-01-31"]
    /\ username = "alice"
    /\ pc = "get_gpu_limits"
    /\ exit_code = NONE
    /\ cmd = <<>>
    /\ coord_out = NotRun
    /\ queries = <<>>
    /\ usage_data = <<>>
    /\ job_i = 0
    /\ usage_by = EmptyDict
    /\ all_accounts \in SUBSET LimitAccounts \ {{}}
    /\ sshare_out \in [all_accounts -> SshareResponses(variant)]
    /\ todo = all_accounts
    /\ gpu_limits = EmptyDict
    /\ report = EmptyDict

NextLim == get_gpu_limits_step \/ get_gpu_limits_return

SpecLim == InitLim /\ [][NextLim]_vars

----------------------------------------------------------------------------
(* The limit lookup and the report on every bounded answer of sshare *)

\* what sacct returned in the runs of the report: root asking for account acctB
ReportJobs == { <<Job3>>, <<Job3, Job4>> }

InitRep ==
    /\ variant \in Variants
    /\ current_user = "root"
    /\ args = [username |-> NONE, account |-> "acctB",
               start |-> "2024-01-01", end |-> "2024-01-31"]
    /\ username = NONE
    /\ pc = "get_gpu_limits"
    /\ exit_code = NONE
    /\ cmd = <<>>
    /\ coord_out = NotRun
    /\ queries = <<>>
    /\ usage_data \in ReportJobs
    /\ job_i = Len(usage_data)
    /\ usage_by = Aggregate(variant, AggregateStart, usage_data).by
    /\ all_accounts = Aggregate(variant, AggregateStart, usage_data).accounts
    /\ sshare_out \in [all_accounts -> SshareResponses(variant)]
    /\ todo = all_accounts
    /\ gpu_limits = EmptyDict
    /\ report = EmptyDict

NextRep == get_gpu_limits_step \/ get_gpu_limits_return \/ main_report

SpecRep == InitRep /\ [][NextRep]_vars

----------------------------------------------------------------------------
(* Reading a command line and the log of issued commands *)

\* position i of command c holds the value of the option before it
RECURSIVE IsOptionValue(_, _)
IsOptionValue(c, i) ==
    /\ i > 1
    /\ c[i - 1] \in {"-S", "-E", "-A", "-u"}
    /\ ~IsOptionValue(c, i - 1)

\* command c carries the option opt
HasOption(c, opt) == \E i \in DOMAIN c : c[i] = opt /\ ~IsOptionValue(c, i)

\* command c carries the option opt with the value val
HasFilter(c, opt, val) ==
    \E i \in 1..(Len(c) - 1) :
        c[i] = opt /\ ~IsOptionValue(c, i) /\ c[i + 1] = val

\* the positions in the log of the commands of one tool
Issued(tool) == {i \in DOMAIN queries : queries[i].tool = tool}

\* user is named in the coordinator list of a returned row of exactly account
InCoordinatorList(rows, account, user) ==
    \E i \in DOMAIN rows :
        /\ Len(rows[i]) >= 4
        /\ rows[i][1] = account
        /\ \E k \in DOMAIN SplitComma[rows[i][4]] : SplitComma[rows[i][4]][k] = user

\* the coordinator query of this run returned a list that names user
FoundAsCoordinator(user) ==
    /\ Truthy(args.account)
    /\ Issued("sacctmgr") # {}
    /\ ~coord_out.failed
    /\ InCoordinatorList(coord_out.out, args.account, user)

----------------------------------------------------------------------------
(* C1 *)

ForeignRequest ==
    current_user # "root" /\ Truthy(args.username) /\ args.username # current_user

\* C1: a caller other than root who names another user (a non-empty username
\* different from the caller's) ends with exit code 1 in main, whatever the
\* account, start and end arguments are, and the run issues no command at all.
C1_ForeignUsernameDenied ==
    (ForeignRequest /\ pc # "main")
        => (pc = "exit" /\ exit_code = "1" /\ queries = <<>>)

C1_Witness ==
    /\ ForeignRequest
    /\ pc = "exit" /\ exit_code = "1"
    /\ args.account = "acctA" /\ args.start = "-a" /\ args.end = "January"

----------------------------------------------------------------------------
(* C2 *)

\* C2: for a caller other than root the effective username is the caller's, and
\* every sacct command of the run filters by "-u <caller>", unless the caller was
\* found in the coordinator list of the requested account.
C2_OwnUsageOnly ==
    current_user # "root" =>
        /\ (pc # "main" /\ exit_code # "1") => username = current_user
        /\ \A i \in Issued("sacct") :
              \/ HasFilter(queries[i].cmd, "-u", current_user)
              \/ FoundAsCoordinator(current_user)

----------------------------------------------------------------------------
(* C3 *)

\* C3: the coordinator query is issued before the sacct command, it is issued
\* whenever the cost report has an account, and when the list it returned for
\* exactly that account names the effective username, the sacct command carries
\* "-a" and no "-u".
C3_CoordinatorBroadens ==
    /\ \A i \in Issued("sacct") :
          /\ \A j \in Issued("sacctmgr") : j < i
          /\ (variant = "cost" /\ Truthy(args.account)) => Issued("sacctmgr") # {}
          /\ FoundAsCoordinator(username) =>
                /\ HasOption(queries[i].cmd, "-a")
                /\ ~HasOption(queries[i].cmd, "-u")
    /\ \A j \in Issued("sacctmgr") :
          queries[j].cmd = coord_check_cmd(args.account)

C3_Witness ==
    /\ Issued("sacct") # {}
    /\ current_user = "alice"
    /\ args.account = "acctA"
    /\ FoundAsCoordinator(username)
    /\ Len(coord_out.out) = 2

----------------------------------------------------------------------------
(* C4 *)

\* C4: when the coordinator query fails the run goes on: the sacct command is
\* issued with the account filter, with the username filter of the effective
\* username, and without "-a", and the aggregation follows.
C4_CoordinatorFailureNotFatal ==
    (Issued("sacctmgr") # {} /\ coord_out.failed) =>
        /\ pc \in {"sacct", "calculate", "calculated", "get_gpu_limits", "report"}
           \/ (pc = "exit" /\ exit_code # "1" /\ Issued("sacct") # {})
        /\ pc # "sacct" => Issued("sacct") # {}
        /\ \A i \in Issued("sacct") :
              /\ HasFilter(queries[i].cmd, "-A", args.account)
              /\ Truthy(username) => HasFilter(queries[i].cmd, "-u", username)
              /\ ~HasOption(queries[i].cmd, "-a")

----------------------------------------------------------------------------
(* C5 *)

\* C5: root with neither a username nor an account ends with exit code 1 in
\* main and issues no command; root with an account and no username does not
\* end with exit code 1, and its sacct command carries the account filter and
\* no "-u".
C5_RootArguments ==
    current_user = "root" =>
        /\ (~Truthy(args.username) /\ ~Truthy(args.account) /\ pc # "main")
              => (pc = "exit" /\ exit_code = "1" /\ queries = <<>>)
        /\ (~Truthy(args.username) /\ Truthy(args.account)) =>
              /\ exit_code # "1"
              /\ pc = "exit" => (queries # <<>> \/ ~IsIsoDate(args.end))
              /\ \A i \in Issued("sacct") :
                    /\ HasFilter(queries[i].cmd, "-A", args.account)
                    /\ ~HasOption(queries[i].cmd, "-u")

C5_Witness ==
    /\ current_user = "root"
    /\ ~Truthy(args.username)
    /\ args.account = "acctA"
    /\ Issued("sacct") # {}
    /\ pc = "exit" /\ exit_code = "0"

----------------------------------------------------------------------------
(* Reading the aggregates *)

\* the field of a job row that names the entity: the user (cost), the account (msc)
EntityField(v) == IF v = "cost" THEN 2 ELSE 6

\* the subtotal of a partition: its cost (cost), its GPU hours (msc)
Subtotal(v, part) == IF v = "cost" THEN part.cost ELSE part.gpu_hours

\* the sequences that list every element of S once
Orders(S) ==
    {f \in [1..Cardinality(S) -> S] : \A i, j \in 1..Cardinality(S) : f[i] = f[j] => i = j}

\* the float sum of the subtotals of entity record e, added in the order ps
RECURSIVE SumSubtotals(_, _, _)
SumSubtotals(v, e, ps) ==
    IF ps = <<>> THEN "0"
    ELSE FloatAdd[SumSubtotals(v, e, SubSeq(ps, 1, Len(ps) - 1))]
                 [Subtotal(v, e.partitions[ps[Len(ps)]])]

\* round(x * 10^6) for the floats of the model
MicroTable ==
    "0" :> 0 @@ "0.01" :> 10000 @@ "0.02" :> 20000 @@ "0.03" :> 30000 @@
    "0.04" :> 40000 @@ "0.12" :> 120000 @@ "0.24" :> 240000 @@ "0.36" :>
    360000 @@ "0.48" :> 480000 @@ "0.6" :> 600000 @@ "1.2" :> 1200000 @@
    "1.7999999999999998" :> 1800000 @@ "2.0" :> 2000000 @@ "2.01" :> 2010000
    @@ "2.0199999999999996" :> 2020000 @@ "2.02" :> 2020000 @@
    "2.0299999999999994" :> 2030000 @@ "2.03" :> 2030000 @@ "2.4" :> 2400000
    @@ "4.0" :> 4000000 @@ "4.01" :> 4010000 @@ "4.02" :> 4020000 @@ "6.0" :>
    6000000 @@ "6.01" :> 6010000 @@ "8.0" :> 8000000 @@ "24.0" :> 24000000 @@
    "24.12" :> 24120000 @@ "24.24" :> 24240000 @@ "24.240000000000002" :>
    24240000 @@ "24.36" :> 24360000 @@ "24.360000000000003" :> 24360000 @@
    "48.0" :> 48000000 @@ "48.12" :> 48120000 @@ "48.120000000000005" :>
    48120000 @@ "48.239999999999995" :> 48240000 @@ "48.24" :> 48240000 @@
    "72.0" :> 72000000 @@ "72.12" :> 72120000 @@ "96.0" :> 96000000 @@ "120.0"
    :> 120000000 @@ "120.6" :> 120600000 @@ "121.19999999999999" :> 121200000
    @@ "121.2" :> 121200000 @@ "121.79999999999998" :> 121800000 @@ "121.8" :>
    121800000 @@ "240.0" :> 240000000 @@ "240.6" :> 240600000 @@ "241.2" :>
    241200000 @@ "360.0" :> 360000000 @@ "360.6" :> 360600000 @@ "480.0" :>
    480000000

\* two floats agree to within 10^-6
Close(x, y) ==
    /\ MicroTable[x] - MicroTable[y] <= 1
    /\ MicroTable[y] - MicroTable[x] <= 1

\* row k of usage_data is a job of entity e in partition p with a non-zero GPU count
Contributes(k, e, p) ==
    LET job == usage_data[k]
    IN  /\ Len(job) = 6
        /\ job[EntityField(variant)] = e
        /\ job[5] = p
        /\ GpuValue(job[4]) \in DOMAIN IntLiteral
        /\ IntLiteral[GpuValue(job[4])] # 0

\* the rearrangements of a list
Rearrangements(list) ==
    {[i \in 1..Len(list) |-> list[f[i]]] : f \in Orders(1..Len(list))}

----------------------------------------------------------------------------
(* C6 *)

\* the rows C6 calls malformed: a wrong field count, or an elapsed field or a
\* gres/gpu count that is no integer
Malformed(job) ==
    \/ Len(job) # 6
    \/ ~IsIntLiteral(job[3])
    \/ GpuValue(job[4]) # NONE /\ ~IsIntLiteral(GpuValue(job[4]))

WellFormed(job) == ~Malformed(job)

\* C6: the aggregator raises no error on malformed rows and returns what it
\* returns for the rows with the malformed ones removed.
C6_MalformedRowsSkipped ==
    /\ exit_code # "ValueError"
    /\ pc = "calculated" =>
          LET r == Aggregate(variant, AggregateStart, SelectSeq(usage_data, WellFormed))
          IN  ~r.raised /\ usage_by = r.by /\ all_accounts = r.accounts

----------------------------------------------------------------------------
(* C7 *)

\* every partition of every entity has a job with a non-zero GPU count among
\* the rows consumed so far
PartitionsHaveJobs ==
    \A e \in DOMAIN usage_by : \A p \in DOMAIN usage_by[e].partitions :
        \E k \in 1..job_i : Contributes(k, e, p)

\* C7 as stated: after any prefix of the rows every entity's total equals the
\* sum of its partition subtotals, and every partition has a contributing job
\* with a non-zero GPU count.
C7_TotalEqualsSubtotals ==
    /\ \A e \in DOMAIN usage_by :
          \E ps \in Orders(DOMAIN usage_by[e].partitions) :
              usage_by[e].total = SumSubtotals(variant, usage_by[e], ps)
    /\ PartitionsHaveJobs

\* C7 as amended: after any prefix of the rows every entity's total equals the
\* sum of its partition subtotals up to the rounding of the float additions
\* (here: to within 10^-6, in whatever order the subtotals are added), and every
\* partition has a contributing job with a non-zero GPU count.
C7_TotalNearSubtotals ==
    /\ \A e \in DOMAIN usage_by :
          \A ps \in Orders(DOMAIN usage_by[e].partitions) :
              Close(usage_by[e].total, SumSubtotals(variant, usage_by[e], ps))
    /\ PartitionsHaveJobs

C7_Witness ==
    /\ job_i = 3
    /\ \E e \in DOMAIN usage_by :
          /\ Cardinality(DOMAIN usage_by[e].partitions) = 2
          /\ \A ps \in Orders(DOMAIN usage_by[e].partitions) :
                usage_by[e].total # SumSubtotals(variant, usage_by[e], ps)

----------------------------------------------------------------------------
(* C8 *)

\* the aggregates by1 and by2 have the same entities, partitions and account
\* sets, and their numbers agree up to rounding
SameUpToRounding(v, by1, by2) ==
    /\ DOMAIN by1 = DOMAIN by2
    /\ \A e \in DOMAIN by1 :
          /\ Close(by1[e].total, by2[e].total)
          /\ DOMAIN by1[e].partitions = DOMAIN by2[e].partitions
          /\ v = "cost" => by1[e].accounts = by2[e].accounts
          /\ \A p \in DOMAIN by1[e].partitions :
                IF v = "cost"
                THEN /\ Close(by1[e].partitions[p].cost, by2[e].partitions[p].cost)
                     /\ Close(by1[e].partitions[p].gpu_minutes,
                              by2[e].partitions[p].gpu_minutes)
                ELSE Close(by1[e].partitions[p].gpu_hours,
                           by2[e].partitions[p].gpu_hours)

\* the aggregator has returned or raised
AggregatorEnded == pc = "calculated" \/ (pc = "exit" /\ exit_code = "ValueError")

\* C8 as stated: on every rearrangement of the rows the aggregator returns the
\* same mapping and the same set of accounts.
C8_PermutationInvariant ==
    AggregatorEnded =>
        \A jobs \in Rearrangements(usage_data) :
            LET r == Aggregate(variant, AggregateStart, jobs)
            IN  /\ r.raised = (pc = "exit")
                /\ ~r.raised => (r.by = usage_by /\ r.accounts = all_accounts)

\* C8 as amended: on every rearrangement of the rows the aggregator raises or
\* returns alike, and returns the same entities, partitions, account sets and
\* global set of accounts, with totals and subtotals equal up to the rounding
\* of the float additions (here: to within 10^-6).
C8_PermutationInvariantUpToRounding ==
    AggregatorEnded =>
        \A jobs \in Rearrangements(usage_data) :
            LET r == Aggregate(variant, AggregateStart, jobs)
            IN  /\ r.raised = (pc = "exit")
                /\ ~r.raised => /\ SameUpToRounding(variant, r.by, usage_by)
                                /\ r.accounts = all_accounts

C8_Witness ==
    /\ pc = "calculated"
    /\ Len(usage_data) = 3
    /\ \E jobs \in Rearrangements(usage_data) :
          LET r == Aggregate(variant, AggregateStart, jobs)
          IN  ~r.raised /\ r.by # usage_by

----------------------------------------------------------------------------
(* C9 *)

\* the lookup has returned or raised
LookupEnded == pc = "report" \/ (pc = "exit" /\ exit_code = "ValueError")

\* what the lookup records for account a when no query fails and a is the only
\* account
RecordedAlone(a) == LimitsForAccount(variant, EmptyDict, a, sshare_out[a]).gl[a]

\* some limit query of the run fails
SomeQueryFails == \E a \in all_accounts : sshare_out[a].failed

\* C9: whatever accounts there are, when some of their queries fail the lookup
\* issues exactly one sshare command per account, records a failing account as
\* unavailable, and records for every other account what it records when no
\* query fails.
C9_PartialFailureIsolation ==
    (LookupEnded /\ SomeQueryFails) =>
        /\ Len(queries) = Cardinality(all_accounts)
        /\ \A a \in all_accounts :
              /\ Cardinality({i \in Issued("sshare") : queries[i].cmd[3] = a}) = 1
              /\ a \in DOMAIN gpu_limits
              /\ gpu_limits[a] = IF sshare_out[a].failed THEN Unavailable(variant)
                                 ELSE RecordedAlone(a)

----------------------------------------------------------------------------
(* C10 *)

\* the {used, total} pair of a limit row
Pair(row) == [used |-> GpuValue(row[3]), total |-> GpuValue(row[4])]

\* the last row of rows whose user field is user
LastRowOf(rows, user) ==
    rows[CHOOSE i \in DOMAIN rows :
            /\ rows[i][2] = user
            /\ \A j \in DOMAIN rows : rows[j][2] = user => j <= i]

\* C10, for answers whose rows all have the four fields: once the rows of an
\* account are processed, in whatever order they came, gpu_limits holds the
\* account-level pair of the row with the empty user field and the pair of
\* every row that names a user.
C10_LimitPairsKept ==
    variant = "cost" =>
        \A a \in DOMAIN gpu_limits :
            LET rows == sshare_out[a].out
            IN  (/\ ~sshare_out[a].failed
                 /\ rows # <<>>
                 /\ \A i \in DOMAIN rows : Len(rows[i]) >= 4) =>
                    \A i \in DOMAIN rows :
                        LET key == IF rows[i][2] = "" THEN "account" ELSE rows[i][2]
                        IN  /\ key \in DOMAIN gpu_limits[a]
                            /\ gpu_limits[a][key] = Pair(LastRowOf(rows, rows[i][2]))

----------------------------------------------------------------------------
(* C11 *)

\* the stored limit has a total that is a number
TotalIsNumber(limit) == limit # NoneLimit /\ IsFloatLiteral(limit.total)

\* the last row sshare returned for account a of the msc variant has a
\* gres/gpu total that is a number
LastTotalIsNumber(a) ==
    /\ ~sshare_out[a].failed
    /\ LET rows == Lines(sshare_out[a].out)
           last == rows[Len(rows)]
       IN  Len(last) >= 2 /\ IsFloatLiteral(GpuValue(last[2]))

\* the report has been printed
Reported == pc = "exit" /\ exit_code = "0"

\* C11: a limit field that is absent or no number never raises an error, and a
\* limit whose total is absent or no number (a missing gres/gpu key, or the key
\* with an empty or non-numeric value) is reported as N/A: a cell that shows
\* numbers comes from a limit whose total is a number.
C11_AbsentLimitNotApplicable ==
    /\ exit_code # "ValueError"
    /\ Reported =>
          IF variant = "cost"
          THEN /\ \A u \in DOMAIN report.users :
                     report.users[u] # NA =>
                        \E a \in usage_by[u].accounts :
                            TotalIsNumber(UserLimit(gpu_limits, a, u))
               /\ \A a \in DOMAIN report.accounts :
                     report.accounts[a] # NA =>
                        TotalIsNumber(AccountLimit(gpu_limits, a))
          ELSE \A a \in DOMAIN report.accounts :
                  report.accounts[a] # NA => LastTotalIsNumber(a)

====
